---------------------------- MODULE Spec2Model ----------------------------
(***************************************************************************)
(* PixelFarm: field-geometry validation, polygon area, the                *)
(* POST /api/analyze_field handler with its health zones and               *)
(* recommendations, and the analysis client of the page.                   *)
(*                                                                         *)
(* JavaScript values are encoded as records so that values of different   *)
(* JavaScript types can be compared:                                       *)
(*   a scalar is [t |-> "num" | "str" | "null", n |-> Int]; "str" is a     *)
(*   string that does not parse as a number (ToNumber gives NaN), "null"   *)
(*   converts to 0;                                                        *)
(*   a coordinate is [arr |-> BOOLEAN, items |-> Seq(scalar)];             *)
(*   a ring is [t |-> "arr" | "null" | "num", pts |-> Seq(coordinate)];    *)
(*   coordinates is [arr |-> BOOLEAN, rings |-> Seq(ring)].                *)
(* Degrees are integers.  properties.area is held in hundredths of a      *)
(* hectare.                                                                *)
(***************************************************************************)
EXTENDS Integers, Sequences, FiniteSets, TLC

VARIABLES
    vField,      \* validator run: the field under validation
    vServer,     \* validator run: result of validateGeometry(field.geometry)
    vClient,     \* validator run: result of validateField(field)
    vDone,       \* validator run: TRUE once the validators have been applied
    aRing,       \* area run: the ring passed to calculatePolygonArea
    aUtil,       \* area run: TRUE when L.GeometryUtil is defined
    aArea,       \* area run: result of each variant of calculatePolygonArea
    aReversed,   \* area run: results for the ring in reversed vertex order
    aDone,       \* area run: TRUE once the areas have been computed
    sVariant,    \* handler: "sdk" (Earth Engine SDK route) or "rest" (REST route)
    sEnv,        \* handler: which of the provider credentials are set
    sPc,         \* handler: "idle", the await it is suspended at, or "done"
    sReq,        \* handler: the request being handled
    sResp,       \* handler: the response returned, status 0 while there is none
    sCalls,      \* handler: the checks and provider calls made so far, in order,
                 \* with "failed" after a provider call that failed
    sProvider,   \* handler: what the provider holds for the field of the request
    sGot,        \* handler: the reductions that have come back so far
    sPending,    \* handler: the reductions that have not come back yet
    dProvider,   \* summary run: the five reductions the provider returned
    dSummary,    \* summary run: result.summary built from them
    dDone,       \* summary run: TRUE once the summary has been built
    pSelected,   \* page: selectedField
    pResult,     \* page: analysisResult
    pAnalyzing,  \* page: isAnalyzing
    pOnline,     \* page: isOnline
    pSidebar,    \* page: sidebarOpen
    pToast,      \* page: the toast shown last
    pShown,      \* page: number of toasts shown so far
    pInflight,   \* page: the POST requests awaiting their outcome
    pClicks,     \* page: number of invocations of analyzeField by the user
    pPosts,      \* page: number of POST requests sent
    hPc,         \* concurrent handlers: where each handler is suspended
    hReq,        \* concurrent handlers: the request of each handler
    hResp,       \* concurrent handlers: the response of each handler
    hProvider,   \* concurrent handlers: what the provider holds for each request
    hOutcome,    \* concurrent handlers: how the provider answered each handler
    eeSession,   \* the credentials held by the imported ee module: the handler
                 \* that wrote them last, 0 while there are none
    hRead,       \* concurrent handlers: the writer of the credentials that the
                 \* reductions of each handler were issued with, 0 before that
    mVariant,    \* map: "plain" (components/map-component.tsx), "drawOnly" or
                 \* "editable" (the two components of src/unnamed/part_000)
    mReady,      \* map: TRUE while the map and drawnItems exist
    mLayers      \* map: the fields whose boundaries are in drawnItems

validatorVars == <<vField, vServer, vClient, vDone>>
areaVars == <<aRing, aUtil, aArea, aReversed, aDone>>
serverVars == <<sVariant, sEnv, sPc, sReq, sResp, sCalls, sProvider, sGot, sPending>>
deriveVars == <<dProvider, dSummary, dDone>>
pageVars == <<pSelected, pResult, pAnalyzing, pOnline, pSidebar, pToast, pShown, pInflight, pClicks, pPosts>>
concurrentVars == <<hPc, hReq, hResp, hProvider, hOutcome, eeSession, hRead>>
mapVars == <<mVariant, mReady, mLayers>>
vars == <<validatorVars, areaVars, serverVars, deriveVars, pageVars, concurrentVars, mapVars>>

(***************************************************************************)
(* Bounds                                                                  *)
(***************************************************************************)
MaxRingLen == 4
MaxAreaRingLen == 5
MaxBuckets == 2
MaxCount == 2
MaxClicks == 3

(***************************************************************************)
(* JavaScript values                                                       *)
(***************************************************************************)
Abs(x) == IF x < 0 THEN -x ELSE x

JNum(n) == [t |-> "num", n |-> n]
JStr == [t |-> "str", n |-> 0]
JNull == [t |-> "null", n |-> 0]

\* typeof v === "number"
IsNumber(v) == v.t = "num"

\* ToNumber(v) is NaN
IsNaN(v) == v.t = "str"

\* ToNumber(v) when it is not NaN
ToNumber(v) == IF v.t = "num" THEN v.n ELSE 0

\* v < k and v > k as JavaScript evaluates them: any comparison with NaN is false
JsLess(v, k) == ~IsNaN(v) /\ ToNumber(v) < k
JsGreater(v, k) == ~IsNaN(v) /\ ToNumber(v) > k

Pair(lng, lat) == [arr |-> TRUE, items |-> <<JNum(lng), JNum(lat)>>]
Ring(pts) == [t |-> "arr", pts |-> pts]
Coordinates(rings) == [arr |-> TRUE, rings |-> rings]

NoCoordinates == [arr |-> FALSE, rings |-> <<>>]
NoGeometry == [present |-> FALSE, type |-> "", coordinates |-> NoCoordinates]
Geometry(type, coordinates) == [present |-> TRUE, type |-> type, coordinates |-> coordinates]

\* messages: the fixed text and the values interpolated into it
Msg(text) == [text |-> text, args |-> <<>>]
MsgArgs(text, args) == [text |-> text, args |-> args]

(***************************************************************************)
(* Server-side validator                                                   *)
(***************************************************************************)
Valid == [ok |-> TRUE, threw |-> FALSE, msg |-> Msg("Valid geometry")]
Invalid(msg) == [ok |-> FALSE, threw |-> FALSE, msg |-> msg]
\* the call raised a TypeError instead of returning
Threw == [ok |-> FALSE, threw |-> TRUE, msg |-> Msg("TypeError")]

\* !Array.isArray(coord) || coord.length !== 2
BadCoordFormat(coord) == ~coord.arr \/ Len(coord.items) /= 2

\* lng < -180 || lng > 180 || lat < -90 || lat > 90
OutOfBounds(coord) ==
    LET lng == coord.items[1]
        lat == coord.items[2]
    IN  JsLess(lng, -180) \/ JsGreater(lng, 180) \/ JsLess(lat, -90) \/ JsGreater(lat, 90)

\* the for..of loop over geometry.coordinates[0], from index i
RECURSIVE CheckCoords(_, _)
CheckCoords(pts, i) ==
    IF i > Len(pts) THEN Valid
    ELSE IF BadCoordFormat(pts[i]) THEN Invalid(Msg("Invalid coordinate format"))
    ELSE IF OutOfBounds(pts[i])
         THEN Invalid(MsgArgs("Invalid coordinates: longitude , latitude ", pts[i].items))
    ELSE CheckCoords(pts, i + 1)

validateGeometry(geometry) ==
    IF ~geometry.present THEN Invalid(Msg("Geometry is required"))
    ELSE IF geometry.type /= "Polygon" THEN Invalid(Msg("Geometry must be a Polygon"))
    ELSE IF ~geometry.coordinates.arr THEN Invalid(Msg("Invalid coordinates"))
    ELSE IF Len(geometry.coordinates.rings) < 1
         THEN Invalid(Msg("Polygon must have at least 3 points"))
    ELSE LET ring == geometry.coordinates.rings[1] IN
         \* null.length raises; (5).length is undefined and undefined < 4 is false
         IF ring.t = "null" THEN Threw
         ELSE IF ring.t = "arr" /\ Len(ring.pts) < 4
              THEN Invalid(Msg("Polygon must have at least 3 points"))
         \* for..of over a number raises: it is not iterable
         ELSE IF ring.t = "num" THEN Threw
         ELSE CheckCoords(ring.pts, 1)

(***************************************************************************)
(* Client-side validator                                                   *)
(***************************************************************************)
\* area values, in hundredths of a hectare, whose double is not below the
\* decimal they are written as: toFixed rounds these up at a tie
RoundsUpAtTie == {5, 25, 45, 55, 65, 75, 999995}

\* Number.prototype.toFixed(1), in tenths: the nearest tenth to the double, the
\* larger one when both are equally near
toFixed1(area) ==
    LET q == area \div 10
        r == area % 10
    IN  IF r < 5 THEN q
        ELSE IF r > 5 THEN q + 1
        ELSE IF area \in RoundsUpAtTie THEN q + 1 ELSE q

\* field.properties?.area || 0
AreaOf(field) ==
    IF field.properties.present /\ field.properties.hasArea
    THEN field.properties.area ELSE 0

\* area < 0.1 || area > 10000, a mutation with the lower bound exclusive first
AreaOutOfRangeExclusive(area) == area <= 10 \/ area > 1000000

AreaOutOfRange(area) == area < 10 \/ area > 1000000

Accepted == [ok |-> TRUE, threw |-> FALSE, msg |-> Msg("null")]

validateField(field) ==
    IF ~field.present \/ ~field.geometry.present THEN Invalid(Msg("Invalid field geometry"))
    ELSE IF field.geometry.type /= "Polygon" THEN Invalid(Msg("Field must be a polygon"))
    \* undefined[0] raises; coordinates[0] of an empty array is undefined
    ELSE IF ~field.geometry.coordinates.arr THEN Threw
    ELSE IF Len(field.geometry.coordinates.rings) < 1
            \/ field.geometry.coordinates.rings[1].t = "null"
         THEN Invalid(Msg("Polygon must have at least 3 points"))
    ELSE IF field.geometry.coordinates.rings[1].t = "arr"
            /\ Len(field.geometry.coordinates.rings[1].pts) < 4
         THEN Invalid(Msg("Polygon must have at least 3 points"))
    ELSE LET area == AreaOf(field) IN
         IF AreaOutOfRange(area)
         THEN Invalid(MsgArgs("Field area ( ha) is outside valid range (0.1 - 10,000 ha)",
                              <<JNum(toFixed1(area))>>))
         ELSE Accepted

(***************************************************************************)
(* Polygon area.  A ring is [isNull |-> BOOLEAN, pts |-> Seq(<<lng, lat>>)] *)
(* with integer degrees.  Areas in square degrees are held doubled (the    *)
(* absolute shoelace sum); hectares are whole hectares, rounded down.      *)
(* Math.cos and Math.sin are Bhaskara's rational approximations in         *)
(* thousandths: exact at 0, 30, 90 degrees, within 0.2% elsewhere, and of  *)
(* the sign of the true function on [-180, 180].                           *)
(***************************************************************************)
metersPerDegree == 111320

\* x * m / 1000 rounded down, for x >= 0, without leaving 32 bits
MulMilli(x, m) == (x \div 1000) * m + ((x % 1000) * m) \div 1000

\* area2 / 2 * 111320^2 / 10000: doubled square degrees to hectares
SqDegToHectares(area2) ==
    \* 111320^2 / 20000 = 619607.12 hectares for each doubled square degree
    LET whole == (((metersPerDegree \div 40) * (metersPerDegree \div 40)) * 2) \div 25
    IN  area2 * whole + (area2 * 12) \div 100

\* Math.cos(latSum / n * Math.PI / 180) in thousandths
CosMilli(latSum, n) ==
    (1000 * (32400 * n * n - 4 * latSum * latSum)) \div (32400 * n * n + latSum * latSum)

\* Math.sin(lat * Math.PI / 180) in thousandths
SinMilli(lat) ==
    LET x == IF lat < 0 THEN -lat ELSE lat
        s == (4000 * x * (180 - x)) \div (40500 - x * (180 - x))
    IN  IF lat < 0 THEN -s ELSE s

RECURSIVE SumLat(_, _)
SumLat(pts, i) == IF i > Len(pts) THEN 0 ELSE pts[i][2] + SumLat(pts, i + 1)

Zero == [area2 |-> 0, hectares |-> 0]

\* for (i = 0; i < coordinates.length - 1; i++) area += x[i]*y[i+1] - x[i+1]*y[i]
RECURSIVE ShoelaceOpen(_, _)
ShoelaceOpen(pts, i) ==
    IF i > Len(pts) - 1 THEN 0
    ELSE pts[i][1] * pts[i + 1][2] - pts[i + 1][1] * pts[i][2] + ShoelaceOpen(pts, i + 1)

\* the loop without the Math.abs that follows it
SquareDegreesSigned(pts) == ShoelaceOpen(pts, 1)

\* let area = 0; the loop; area = Math.abs(area) / 2   (doubled)
SquareDegrees(pts) == Abs(ShoelaceOpen(pts, 1))

\* calculatePolygonArea of the CDN-loading map component
calculatePolygonArea(coordinates) ==
    IF coordinates.isNull \/ Len(coordinates.pts) < 4 THEN Zero
    ELSE LET area2 == SquareDegrees(coordinates.pts)
             cos == CosMilli(SumLat(coordinates.pts, 1), Len(coordinates.pts))
         IN  [area2 |-> area2, hectares |-> MulMilli(SqDegToHectares(area2), cos)]

\* for (i = 0; i < n; i++) { j = (i + 1) % n; area += x[i]*y[j]; area -= x[j]*y[i] }
\* over the first n points, indices from 1
RECURSIVE ShoelaceWrap(_, _, _)
ShoelaceWrap(pts, n, i) ==
    IF i > n THEN 0
    ELSE LET j == (i % n) + 1
         IN  pts[i][1] * pts[j][2] - pts[j][1] * pts[i][2] + ShoelaceWrap(pts, n, i + 1)

\* calculatePolygonArea of the earlier variant of the map component
calculatePolygonAreaSimple(coordinates) ==
    IF coordinates.isNull \/ Len(coordinates.pts) < 3 THEN Zero
    ELSE LET n == Len(coordinates.pts) - 1
             area2 == Abs(ShoelaceWrap(coordinates.pts, n, 1))
         IN  [area2 |-> area2, hectares |-> SqDegToHectares(area2)]

\* L.GeometryUtil.geodesicArea(latLngs) / 10000: the sum of
\* (lng2 - lng1) * d2r * (2 + sin(lat1) + sin(lat2)) over all edges with
\* wraparound, times 6378137^2 / 2, absolute value
RECURSIVE GeodesicSum(_, _)
GeodesicSum(pts, i) ==
    IF i > Len(pts) THEN 0
    ELSE LET j == (i % Len(pts)) + 1
         IN  (pts[j][1] - pts[i][1]) * (2000 + SinMilli(pts[i][2]) + SinMilli(pts[j][2]))
             + GeodesicSum(pts, i + 1)

geodesicArea(pts) ==
    LET sum == IF Len(pts) > 2 THEN Abs(GeodesicSum(pts, 1)) ELSE 0
    IN  sum * 35500 + sum \div 2

\* calculatePolygonArea of components/map-component.tsx
calculatePolygonAreaLeaflet(coordinates, hasGeometryUtil) ==
    IF coordinates.isNull \/ Len(coordinates.pts) < 3 THEN Zero
    ELSE IF hasGeometryUtil
         THEN [area2 |-> 0, hectares |-> geodesicArea(coordinates.pts)]
         ELSE LET area2 == Abs(ShoelaceWrap(coordinates.pts, Len(coordinates.pts), 1))
              IN  [area2 |-> area2, hectares |-> SqDegToHectares(area2)]

(***************************************************************************)
(* Health zones and recommendations of the sdk route.  Index values and    *)
(* bucket means are held in hundredths.  The provider's answer is           *)
(*   [ndvi, ndwi, ndre : scalar, evi : [constant, EVI : scalar],            *)
(*    hist : [present, meansArr, bucketMeans, histArr, histogram]]          *)
(* where a scalar is a number or null/undefined (JNull), hist.present says  *)
(* that ndviHistDict.NDVI exists, and meansArr / histArr say that the       *)
(* member is an array.                                                      *)
(***************************************************************************)
Hist(bucketMeans, histogram) ==
    [present |-> TRUE, meansArr |-> TRUE, bucketMeans |-> bucketMeans,
     histArr |-> TRUE, histogram |-> histogram]

\* ndviHistDict.NDVI is missing
NoHist ==
    [present |-> FALSE, meansArr |-> FALSE, bucketMeans |-> <<>>,
     histArr |-> FALSE, histogram |-> <<>>]

\* eviDict: the mean of the EVI image, under constant or under EVI
EviDict(constant, evi) == [constant |-> constant, EVI |-> evi]

\* the five reductions
Provider(ndvi, ndwi, ndre, evi, hist) ==
    [ndvi |-> ndvi, ndwi |-> ndwi, ndre |-> ndre, evi |-> evi, hist |-> hist]

NoProvider == Provider(JNull, JNull, JNull, EviDict(JNull, JNull), NoHist)

\* a ?? b
Coalesce(a, b) == IF a.t = "null" THEN b ELSE a

Min(a, b) == IF a < b THEN a ELSE b

\* Math.round((count / total) * 100)
RoundPercent(count, total) == (200 * count + total) \div (2 * total)

RECURSIVE SumCounts(_, _)
SumCounts(counts, i) == IF i > Len(counts) THEN 0 ELSE counts[i] + SumCounts(counts, i + 1)

\* the class of a bucket mean, a mutation with the healthy bound inclusive first
ZoneOfInclusive(mean) ==
    IF mean >= 30 THEN "healthy" ELSE IF mean > 15 THEN "moderate" ELSE "stressed"

\* if (mean > 0.3) healthy; else if (mean > 0.15) moderate; else stressed
ZoneOf(mean) ==
    IF mean > 30 THEN "healthy" ELSE IF mean > 15 THEN "moderate" ELSE "stressed"

\* the loop over i < Math.min(bucketMeans.length, counts.length), for one class
RECURSIVE ZoneCount(_, _, _, _)
ZoneCount(zone, bucketMeans, counts, i) ==
    IF i > Min(Len(bucketMeans), Len(counts)) THEN 0
    ELSE (IF ZoneOf(bucketMeans[i]) = zone THEN counts[i] ELSE 0)
         + ZoneCount(zone, bucketMeans, counts, i + 1)

NoZones == [present |-> FALSE, healthy |-> 0, moderate |-> 0, stressed |-> 0]

\* health_zones after the histogram block
HistogramZones(hist) ==
    IF ~hist.present THEN NoZones
    ELSE LET bucketMeans == IF hist.meansArr THEN hist.bucketMeans ELSE <<>>
             counts == IF hist.histArr THEN hist.histogram ELSE <<>>
             total == SumCounts(counts, 1)
         IN  IF total > 0
             THEN [present |-> TRUE,
                   healthy |-> RoundPercent(ZoneCount("healthy", bucketMeans, counts, 1), total),
                   moderate |-> RoundPercent(ZoneCount("moderate", bucketMeans, counts, 1), total),
                   stressed |-> RoundPercent(ZoneCount("stressed", bucketMeans, counts, 1), total)]
             ELSE NoZones

\* !ndviHistDict || !ndviHistDict.NDVI || !NDVI.histogram || !NDVI.histogram.counts
\* || counts sum 0: histogram is an array, so histogram.counts is undefined
\* and the fourth operand is true whenever it is evaluated
HistogramMissing(hist) == ~hist.present \/ ~hist.histArr \/ TRUE

\* (avg_ndvi === null || typeof avg_ndvi !== 'number') && (the above)
noNDVIData(avg_ndvi, hist) == ~IsNumber(avg_ndvi) /\ HistogramMissing(hist)

health_zones(avg_ndvi, hist) ==
    IF noNDVIData(avg_ndvi, hist) THEN NoZones ELSE HistogramZones(hist)

RecGreat == "Your field looks great! No major issues detected. Keep up the good work and continue regular monitoring."
RecNoData == "No NDVI data available for this field. Try a different area or date."
RecNdviLow == "Increase irrigation and check for crop stress. Consider soil testing and replanting if low NDVI persists."
RecNdviHigh == "Field is healthy. Maintain current practices and monitor for pests."
RecNdviMid == "Monitor field regularly. Apply fertilizer if needed and check for emerging stress."
RecNdwiLow == "Increase watering. Soil or crop may be dry."
RecNdwiHigh == "Field is well-watered. Avoid over-irrigation."
RecNdre == "Low NDRE: Check for nutrient deficiencies, especially nitrogen."
RecEvi == "Low EVI: Vegetation is sparse or stressed."
RecNone == "No specific issues detected. Continue regular monitoring."

\* health_zones && health_zones.healthy > 90, a mutation with >= first
LooksGreatInclusive(zones) == zones.present /\ zones.healthy >= 90

LooksGreat(zones) == zones.present /\ zones.healthy > 90

\* the NDVI tier, a mutation with the upper bound inclusive first
NdviAdviceInclusive(avg_ndvi) ==
    IF JsLess(avg_ndvi, 30) THEN <<RecNdviLow>>
    ELSE IF ~JsLess(avg_ndvi, 60) THEN <<RecNdviHigh>>
    ELSE <<RecNdviMid>>

\* if (avg_ndvi < 0.3) ... else if (avg_ndvi > 0.6) ... else ...
NdviAdvice(avg_ndvi) ==
    IF JsLess(avg_ndvi, 30) THEN <<RecNdviLow>>
    ELSE IF JsGreater(avg_ndvi, 60) THEN <<RecNdviHigh>>
    ELSE <<RecNdviMid>>

\* the recommendations block
Recommendations(avg_ndvi, avg_ndwi, avg_ndre, avg_evi, zones, noData) ==
    LET recs ==
          IF LooksGreat(zones) THEN <<RecGreat>>
          ELSE IF noData \/ avg_ndvi.t = "null" THEN <<RecNoData>>
          ELSE NdviAdvice(avg_ndvi)
               \o (IF avg_ndwi.t /= "null" /\ JsLess(avg_ndwi, 20) THEN <<RecNdwiLow>>
                   ELSE IF avg_ndwi.t /= "null" /\ JsGreater(avg_ndwi, 50) THEN <<RecNdwiHigh>>
                   ELSE <<>>)
               \o (IF avg_ndre.t /= "null" /\ JsLess(avg_ndre, 20) THEN <<RecNdre>> ELSE <<>>)
               \o (IF avg_evi.t /= "null" /\ JsLess(avg_evi, 20) THEN <<RecEvi>> ELSE <<>>)
    IN  IF Len(recs) = 0 THEN <<RecNone>> ELSE recs

\* result.summary, from the five reductions
Summary(provider) ==
    LET avg_ndvi == Coalesce(provider.ndvi, JNull)
        avg_evi == Coalesce(provider.evi.constant, Coalesce(provider.evi.EVI, JNull))
        avg_ndwi == Coalesce(provider.ndwi, JNull)
        avg_ndre == Coalesce(provider.ndre, JNull)
        zones == health_zones(avg_ndvi, provider.hist)
    IN  [avg_ndvi |-> avg_ndvi, avg_evi |-> avg_evi, avg_ndwi |-> avg_ndwi, avg_ndre |-> avg_ndre,
         health_zones |-> zones,
         recommendations |-> Recommendations(avg_ndvi, avg_ndwi, avg_ndre, avg_evi, zones,
                                             noNDVIData(avg_ndvi, provider.hist))]

NoSummary ==
    [avg_ndvi |-> JNull, avg_evi |-> JNull, avg_ndwi |-> JNull, avg_ndre |-> JNull,
     health_zones |-> NoZones, recommendations |-> <<>>]

(***************************************************************************)
(* POST /api/analyze_field.  Two variants of the route exist: "sdk"        *)
(* authenticates the Earth Engine SDK and reduces five regions, "rest"     *)
(* acquires an OAuth token and posts one expression.  The handler is a     *)
(* sequence of steps, one for each await.                                  *)
(***************************************************************************)
NoValue == [geometry |-> NoGeometry, ndvi |-> JNull, recommendations |-> <<>>, summary |-> NoSummary]
Undefined == [defined |-> FALSE, value |-> NoValue]
Defined(value) == [defined |-> TRUE, value |-> value]

\* the same, with the data member always written
createResponseAlwaysData(success, message, data) ==
    [success |-> success, message |-> message, hasData |-> TRUE, data |-> data.value]

\* { success, message, timestamp, ...(data !== undefined ? { data } : {}) }
createResponse(success, message, data) ==
    [success |-> success, message |-> message, hasData |-> data.defined, data |-> data.value]

\* NextResponse.json(body, { status })
Json(body, status) ==
    [status |-> status, success |-> body.success, message |-> body.message,
     hasData |-> body.hasData, data |-> body.data]

NoResponse == Json(createResponse(FALSE, Msg(""), Undefined), 0)

\* a thrown value: an Error carries a message, a rejection with a string does not
Error(msg) == [hasMessage |-> TRUE, message |-> msg]
StringRejection == [hasMessage |-> FALSE, message |-> Msg("")]

\* text that the provider supplied: an exception message or an error body
ProviderText(k) == [t |-> "provider", n |-> k]

\* an Error raised by the provider's SDK or by fetch: its message is the provider's
ProviderError(text) == Error(MsgArgs("", <<text>>))

\* catch (error) { return json(createResponse(false, error.message || 'Internal server error'), 500) }
Catch(error) ==
    Json(createResponse(FALSE,
                        IF error.hasMessage THEN error.message ELSE Msg("Internal server error"),
                        Undefined), 500)

BadRequest(msg) == Json(createResponse(FALSE, msg, Undefined), 400)

\* the result of the sdk route: geojson_overlay is the request geometry
SdkResult(geometry, provider) ==
    [geometry |-> geometry, ndvi |-> JNull, recommendations |-> <<>>, summary |-> Summary(provider)]

\* the result of the rest route: ndvi in tenths, null when the provider has no value
RestResult(ndvi) ==
    [geometry |-> NoGeometry, ndvi |-> ndvi,
     recommendations |-> IF ndvi.t /= "null" /\ JsGreater(ndvi, 5)
                         THEN <<"Good vegetation health.">> ELSE <<"Monitor for stress.">>,
     summary |-> NoSummary]

Finish(resp) ==
    /\ sResp' = resp
    /\ sPc' = "done"

\* a request arrives at an idle handler
Receive(req) ==
    /\ sPc \in {"idle", "done"}
    /\ sReq' = req
    /\ sPc' = "received"
    /\ sResp' = NoResponse
    /\ sCalls' = <<>>
    /\ sProvider' = NoProvider /\ sGot' = NoProvider /\ sPending' = {}
    /\ UNCHANGED <<sVariant, sEnv, validatorVars, areaVars, deriveVars, pageVars, concurrentVars, mapVars>>

\* sdk route, up to await req.json()
SdkStart ==
    /\ sVariant = "sdk" /\ sPc = "received"
    /\ sCalls' = Append(sCalls, "credentials")
    /\ IF ~sEnv.privateKey \/ ~sEnv.clientEmail \/ ~sEnv.projectId
       THEN Finish(Catch(Error(Msg("Missing required GEE credentials"))))
       ELSE IF ~sReq.json
       THEN Finish(BadRequest(Msg("Request must be JSON")))
       ELSE sPc' = "json" /\ UNCHANGED sResp
    /\ UNCHANGED <<sVariant, sEnv, sReq, sProvider, sGot, sPending, validatorVars, areaVars, deriveVars, pageVars, concurrentVars, mapVars>>

\* sdk route, from the parsed body up to the await of the SDK authentication
SdkParsed ==
    /\ sVariant = "sdk" /\ sPc = "json"
    /\ IF sReq.body.kind = "malformed"
       THEN Finish(Catch(Error(Msg("SyntaxError")))) /\ UNCHANGED sCalls
       ELSE IF sReq.body.kind = "null" \/ ~sReq.body.geometry.present
       THEN Finish(BadRequest(Msg("No geometry provided"))) /\ UNCHANGED sCalls
       ELSE LET v == validateGeometry(sReq.body.geometry) IN
            IF v.threw
            THEN Finish(Catch(Error(v.msg))) /\ sCalls' = Append(sCalls, "validate")
            ELSE IF ~v.ok
            THEN Finish(BadRequest(v.msg)) /\ sCalls' = Append(sCalls, "validate")
            ELSE /\ sPc' = "authenticate"
                 /\ sCalls' = sCalls \o <<"validate", "authenticate">>
                 /\ UNCHANGED sResp
    /\ UNCHANGED <<sVariant, sEnv, sReq, sProvider, sGot, sPending, validatorVars, areaVars, deriveVars, pageVars, concurrentVars, mapVars>>

\* the five reductions of the Promise.all
Reductions == {"ndvi", "evi", "ndwi", "ndre", "hist"}

\* sdk route: authenticateViaPrivateKey / initialize resolve or reject, then
\* the five reduceRegion(...).getInfo() calls are made; provider is what the
\* provider holds for the field
SdkAuthenticated(outcome, text, provider) ==
    /\ sVariant = "sdk" /\ sPc = "authenticate"
    /\ IF outcome = "ok"
       THEN /\ sPc' = "reduce" /\ sCalls' = Append(sCalls, "reduce") /\ UNCHANGED sResp
            /\ sProvider' = provider
            /\ sPending' = Reductions
            /\ UNCHANGED sGot
       ELSE /\ Finish(Catch(IF outcome = "error" THEN ProviderError(text) ELSE StringRejection))
            /\ sCalls' = Append(sCalls, "failed")
            /\ UNCHANGED <<sProvider, sGot, sPending>>
    /\ UNCHANGED <<sVariant, sEnv, sReq, validatorVars, areaVars, deriveVars, pageVars, concurrentVars, mapVars>>

\* a mutation of the join that goes on when one reduction is still missing
JoinCompleteEarly(pending) == Cardinality(pending) <= 1

\* await Promise.all([...]) goes on when every reduction has come back
JoinComplete(pending) == pending = {}

\* sdk route: one of the reductions comes back or fails; after the last one
\* the summary is derived and the response returned
SdkReduced(name, outcome, text) ==
    /\ sVariant = "sdk" /\ sPc = "reduce"
    /\ name \in sPending
    /\ IF outcome = "ok"
       THEN /\ sGot' = [sGot EXCEPT ![name] = sProvider[name]]
            /\ sPending' = sPending \ {name}
            /\ IF JoinComplete(sPending')
               THEN Finish(Json(createResponse(TRUE, Msg("Analysis completed"),
                                               Defined(SdkResult(sReq.body.geometry, sGot'))), 200))
               ELSE UNCHANGED <<sPc, sResp>>
            /\ UNCHANGED sCalls
       ELSE /\ Finish(Catch(ProviderError(text)))
            /\ sCalls' = Append(sCalls, "failed")
            /\ UNCHANGED <<sGot, sPending>>
    /\ UNCHANGED <<sVariant, sEnv, sReq, sProvider, validatorVars, areaVars, deriveVars, pageVars, concurrentVars, mapVars>>

\* rest route: getEarthEngineToken up to await jwt.authorize()
RestStart ==
    /\ sVariant = "rest" /\ sPc = "received"
    /\ IF ~sEnv.privateKey \/ ~sEnv.clientEmail
       THEN /\ Finish(Catch(Error(Msg("Missing GEE credentials. Ensure GEE_PRIVATE_KEY and GEE_CLIENT_EMAIL are set."))))
            /\ sCalls' = Append(sCalls, "credentials")
       ELSE /\ sPc' = "token"
            /\ sCalls' = sCalls \o <<"credentials", "token">>
            /\ UNCHANGED sResp
    /\ UNCHANGED <<sVariant, sEnv, sReq, sProvider, sGot, sPending, validatorVars, areaVars, deriveVars, pageVars, concurrentVars, mapVars>>

\* rest route: jwt.authorize() settles; then the project id and content type
\* checks, up to await req.json()
RestToken(outcome, text) ==
    /\ sVariant = "rest" /\ sPc = "token"
    /\ IF outcome = "error" THEN Finish(Catch(ProviderError(text)))
       ELSE IF outcome = "empty"
       THEN Finish(Catch(Error(Msg("Failed to acquire Earth Engine access token"))))
       ELSE IF ~sEnv.projectId
       THEN Finish(Catch(Error(Msg("Missing GEE_PROJECT_ID environment variable."))))
       ELSE IF ~sReq.json
       THEN Finish(BadRequest(Msg("Request must be JSON")))
       ELSE sPc' = "json" /\ UNCHANGED sResp
    /\ sCalls' = IF outcome = "ok" THEN sCalls ELSE Append(sCalls, "failed")
    /\ UNCHANGED <<sVariant, sEnv, sReq, sProvider, sGot, sPending, validatorVars, areaVars, deriveVars, pageVars, concurrentVars, mapVars>>

\* rest route, from the parsed body up to await fetch(...)
RestParsed ==
    /\ sVariant = "rest" /\ sPc = "json"
    /\ IF sReq.body.kind = "malformed"
       THEN Finish(Catch(Error(Msg("SyntaxError")))) /\ UNCHANGED sCalls
       ELSE IF sReq.body.kind = "null"
       THEN Finish(BadRequest(Msg("No data provided"))) /\ UNCHANGED sCalls
       ELSE LET v == validateGeometry(sReq.body.geometry) IN
            IF v.threw
            THEN Finish(Catch(Error(v.msg))) /\ sCalls' = Append(sCalls, "validate")
            ELSE IF ~v.ok
            THEN Finish(BadRequest(v.msg)) /\ sCalls' = Append(sCalls, "validate")
            ELSE /\ sPc' = "compute"
                 /\ sCalls' = sCalls \o <<"validate", "compute">>
                 /\ UNCHANGED sResp
    /\ UNCHANGED <<sVariant, sEnv, sReq, sProvider, sGot, sPending, validatorVars, areaVars, deriveVars, pageVars, concurrentVars, mapVars>>

\* rest route: fetch settles or fails; !response.ok raises with the provider's text
RestComputed(outcome, ndvi, text) ==
    /\ sVariant = "rest" /\ sPc = "compute"
    /\ IF outcome = "ok"
       THEN Finish(Json(createResponse(TRUE, Msg("Field analysis completed successfully"),
                                       Defined(RestResult(ndvi))), 200))
       ELSE Finish(Catch(IF outcome = "httpError"
                         THEN Error(MsgArgs("Earth Engine API error:  - ", <<text>>))
                         ELSE ProviderError(text)))
    /\ sCalls' = IF outcome = "ok" THEN sCalls ELSE Append(sCalls, "failed")
    /\ UNCHANGED <<sVariant, sEnv, sReq, sProvider, sGot, sPending, validatorVars, areaVars, deriveVars, pageVars, concurrentVars, mapVars>>

(***************************************************************************)
(* Area runs: a ring is drawn from the bounded set below and every variant *)
(* is applied to it and to its reversal (ComputeAreas).                    *)
(***************************************************************************)
AreaPoints == { <<0, 0>>, <<3, 0>>, <<3, 3>>, <<1, 3>>, <<1, 1>>, <<2, 90>>, <<1, -95>> }

AreaRings ==
    { [isNull |-> TRUE, pts |-> <<>>] }
    \cup { [isNull |-> FALSE, pts |-> p] :
             p \in UNION { [1..n -> AreaPoints] : n \in 0..MaxAreaRingLen } }

Reverse(pts) == [i \in 1..Len(pts) |-> pts[Len(pts) + 1 - i]]

ReverseRing(ring) == [isNull |-> ring.isNull, pts |-> Reverse(ring.pts)]

Areas(ring, hasGeometryUtil) ==
    [ cdn |-> calculatePolygonArea(ring),
      simple |-> calculatePolygonAreaSimple(ring),
      leaflet |-> calculatePolygonAreaLeaflet(ring, hasGeometryUtil) ]

NoAreas == [cdn |-> Zero, simple |-> Zero, leaflet |-> Zero]

(***************************************************************************)
(* Validator runs: a field is drawn from the bounded set below and both    *)
(* validators are applied to it.                                           *)
(***************************************************************************)
CoordSamples ==
    { Pair(0, 0), Pair(180, 90), Pair(-180, -90), Pair(200, 0), Pair(0, -95),
      [arr |-> TRUE, items |-> <<JStr, JNull>>],
      [arr |-> TRUE, items |-> <<JNum(0), JNum(0), JNum(0)>>] }

RingPts == UNION { [1..n -> CoordSamples] : n \in 0..MaxRingLen }

NoProperties == [present |-> FALSE, hasArea |-> FALSE, area |-> 0]
NoArea == [present |-> TRUE, hasArea |-> FALSE, area |-> 0]
Area(a) == [present |-> TRUE, hasArea |-> TRUE, area |-> a]

AreaSamples == {0, 5, 9, 10, 15, 500, 1000000, 1000001, 1000005, 1500000}
PropsSamples == {NoProperties, NoArea} \cup { Area(a) : a \in AreaSamples }

Field(geometry, properties) == [present |-> TRUE, geometry |-> geometry, properties |-> properties]
NoField == [present |-> FALSE, geometry |-> NoGeometry, properties |-> NoProperties]

SquareRing == Ring(<<Pair(0, 0), Pair(180, 90), Pair(-180, -90), Pair(0, 0)>>)

OddGeometries ==
    { NoGeometry,
      Geometry("Point", Coordinates(<<SquareRing>>)),
      Geometry("Polygon", NoCoordinates),
      Geometry("Polygon", Coordinates(<<>>)),
      Geometry("Polygon", Coordinates(<<[t |-> "null", pts |-> <<>>]>>)),
      Geometry("Polygon", Coordinates(<<[t |-> "num", pts |-> <<>>]>>)) }

PolygonGeometries == { Geometry("Polygon", Coordinates(<<Ring(p)>>)) : p \in RingPts }

Fields ==
    {NoField}
    \cup { Field(g, p) : g \in OddGeometries, p \in PropsSamples }
    \cup { Field(g, p) : g \in PolygonGeometries, p \in PropsSamples }

NoResult == [ok |-> FALSE, threw |-> FALSE, msg |-> Msg("")]

(***************************************************************************)
(* Handler runs: requests are drawn from the bounded set below.            *)
(***************************************************************************)
SampleGeometries ==
    OddGeometries \cup
    { Geometry("Polygon", Coordinates(<<SquareRing>>)),
      Geometry("Polygon", Coordinates(<<Ring(<<Pair(0, 0), Pair(1, 1), Pair(0, 0)>>)>>)),
      Geometry("Polygon", Coordinates(<<Ring(<<Pair(0, 0), Pair(200, 0), Pair(1, 1), Pair(0, 0)>>)>>)),
      Geometry("Polygon", Coordinates(<<Ring(<<Pair(0, 0), Pair(0, -95), Pair(1, 1), Pair(0, 0)>>)>>)),
      Geometry("Polygon", Coordinates(<<Ring(<<Pair(0, 0), [arr |-> TRUE, items |-> <<JStr, JNull>>],
                                               Pair(1, 1), Pair(0, 0)>>)>>)) }

Bodies ==
    { [kind |-> "malformed", geometry |-> NoGeometry], [kind |-> "null", geometry |-> NoGeometry] }
    \cup { [kind |-> "object", geometry |-> g] : g \in SampleGeometries }

Requests == { [json |-> j, body |-> b] : j \in BOOLEAN, b \in Bodies }

NdviSamples == {JNull, JNum(5), JNum(6)}

\* two error texts of the provider
ProviderTexts == {ProviderText(1), ProviderText(2)}

(***************************************************************************)
(* Summary runs: the reductions the provider can return.  Bucket means     *)
(* lie on both sides of and on the bounds 0.3 and 0.15; bucketMeans and    *)
(* histogram need not have the same length.                                *)
(***************************************************************************)
MeanSamples == {40, 30, 15}

\* ndviHistDict.NDVI exists without its arrays
HistNoArrays ==
    [present |-> TRUE, meansArr |-> FALSE, bucketMeans |-> <<>>,
     histArr |-> FALSE, histogram |-> <<>>]

HistExample == Hist(<<40, 20, 5>>, <<50, 30, 20>>)
HistExample2 == Hist(<<40, 20, 5>>, <<65, 25, 10>>)
HistNinety == Hist(<<40, 5>>, <<9, 1>>)

HistSamples ==
    {NoHist, HistNoArrays, HistExample, HistExample2, HistNinety,
     Hist(<<40>>, <<1>>), Hist(<<40>>, <<0>>), Hist(<<40>>, <<1, 1>>)}

Histograms ==
    HistSamples
    \cup { Hist(m, c) : m \in UNION { [1..n -> MeanSamples] : n \in 0..MaxBuckets },
                        c \in UNION { [1..n -> 0..MaxCount] : n \in 0..MaxBuckets } }

NdviValues == {JNull, JNum(20), JNum(30), JNum(60), JNum(72)}
NdwiValues == {JNull, JNum(15), JNum(20), JNum(50), JNum(51)}
NdreValues == {JNull, JNum(15), JNum(20)}
EviDicts ==
    {EviDict(JNull, JNull), EviDict(JNum(15), JNull), EviDict(JNull, JNum(20)),
     EviDict(JNum(20), JNum(15))}

ProviderExample ==
    Provider(JNum(72), JNum(15), JNum(45), EviDict(JNull, JNum(68)), HistExample2)

\* every combination of index values with the named histograms, and every
\* histogram with a mean NDVI that is null or a number
Providers ==
    {ProviderExample}
    \cup { Provider(ndvi, ndwi, ndre, evi, hist) :
             ndvi \in NdviValues, ndwi \in NdwiValues, ndre \in NdreValues,
             evi \in EviDicts, hist \in HistSamples }
    \cup { Provider(ndvi, ndwi, JNull, EviDict(JNull, JNull), hist) :
             ndvi \in {JNull, JNum(20)}, ndwi \in {JNull, JNum(15)}, hist \in Histograms }

\* the provider answers the handler runs draw from
ProviderSamples ==
    {ProviderExample, NoProvider,
     Provider(JNull, JNum(15), JNull, EviDict(JNull, JNull), HistExample),
     Provider(JNum(20), JNull, JNum(15), EviDict(JNum(15), JNull), Hist(<<40>>, <<0>>)),
     Provider(JNum(60), JNum(51), JNull, EviDict(JNull, JNull), Hist(<<40>>, <<1, 1>>)),
     Provider(JNum(30), JNum(15), JNum(15), EviDict(JNum(15), JNull), Hist(<<40>>, <<2>>))}

ServerIdle ==
    /\ sVariant = "sdk"
    /\ sEnv = [privateKey |-> TRUE, clientEmail |-> TRUE, projectId |-> TRUE]
    /\ sPc = "idle"
    /\ sReq = [json |-> TRUE, body |-> [kind |-> "null", geometry |-> NoGeometry]]
    /\ sResp = NoResponse
    /\ sCalls = <<>>
    /\ sProvider = NoProvider
    /\ sGot = NoProvider
    /\ sPending = {}

(***************************************************************************)
(* The page (src/app/page.tsx).  analyzeField is a closure of the render   *)
(* it was created in: it reads the selectedField and isOnline of that      *)
(* render.  A button of the page calls the closure of the current render;  *)
(* the Retry button of a toast calls the closure that showed the toast.    *)
(* An outcome of the POST is                                                *)
(*   [kind |-> "envelope", ...]  a response with a 2xx status,             *)
(*   [kind |-> "status", ...]    a response with another status,           *)
(*   [kind |-> "timeout"]        no response within 45 s,                  *)
(*   [kind |-> "network"]        no response at all.                       *)
(***************************************************************************)
Closure(field, online) == [field |-> field, online |-> online]
NoClosure == Closure(NoField, FALSE)

\* toast({title, description, action}); retry says that the action is Retry

Toast(title, description, retry, closure) ==
    [title |-> title, description |-> description, retry |-> retry, closure |-> closure]

NoToast == Toast("", Msg(""), FALSE, NoClosure)

\* response.data.data of a successful analysis: the result for a geometry
ResultFor(geometry) == [present |-> TRUE, geometry |-> geometry]
NoAnalysis == [present |-> FALSE, geometry |-> NoGeometry]

Outcome(kind, success, hasData, hasMessage, message) ==
    [kind |-> kind, success |-> success, hasData |-> hasData,
     hasMessage |-> hasMessage, message |-> message]

\* the error caught at the catch clause: an axios error or a thrown Error
Err(code, hasResponse, hasMessage, message, hasRequest) ==
    [code |-> code, hasResponse |-> hasResponse, hasMessage |-> hasMessage,
     message |-> message, hasRequest |-> hasRequest]

\* what axios.post rejects with, and what the else branch throws
ErrorOf(outcome) ==
    CASE outcome.kind = "timeout" -> Err("ECONNABORTED", FALSE, FALSE, Msg(""), TRUE)
      [] outcome.kind = "network" -> Err("ERR_NETWORK", FALSE, FALSE, Msg(""), TRUE)
      [] outcome.kind = "status" ->
            Err("ERR_BAD_RESPONSE", TRUE, outcome.hasMessage, outcome.message, TRUE)
      [] OTHER ->
            Err("", FALSE, FALSE,
                IF outcome.hasMessage THEN outcome.message ELSE Msg("Analysis failed"), FALSE)

TimeoutMessage == Msg("Analysis timeout. The field may be too large or server is busy.")
TransportMessage == Msg("Cannot reach analysis server. Please check your connection.")
GenericMessage == Msg("Analysis failed. Please try again.")

\* a mutation of errorMessage that tests err.request first
errorMessageRequestFirst(err) ==
    IF err.hasRequest THEN TransportMessage
    ELSE IF err.code = "ECONNABORTED" THEN TimeoutMessage
    ELSE IF err.hasResponse /\ err.hasMessage THEN err.message
    ELSE GenericMessage

\* errorMessage of the catch clause
errorMessage(err) ==
    IF err.code = "ECONNABORTED" THEN TimeoutMessage
    ELSE IF err.hasResponse /\ err.hasMessage THEN err.message
    ELSE IF err.hasRequest THEN TransportMessage
    ELSE GenericMessage

\* response.data.success && response.data.data
Succeeded(outcome) == outcome.kind = "envelope" /\ outcome.success /\ outcome.hasData

RemoveAt(seq, i) == SubSeq(seq, 1, i - 1) \o SubSeq(seq, i + 1, Len(seq))

\* analyzeField() of the render whose state is closure
analyzeField(closure) ==
    /\ pClicks < MaxClicks
    /\ pClicks' = pClicks + 1
    /\ IF ~closure.field.present
       THEN UNCHANGED <<pToast, pShown, pAnalyzing, pInflight, pPosts>>
       ELSE IF validateField(closure.field).threw
       THEN UNCHANGED <<pToast, pShown, pAnalyzing, pInflight, pPosts>>
       ELSE IF ~validateField(closure.field).ok
       THEN /\ pToast' = Toast("Invalid Field", validateField(closure.field).msg, FALSE, NoClosure)
            /\ pShown' = pShown + 1
            /\ UNCHANGED <<pAnalyzing, pInflight, pPosts>>
       ELSE IF ~closure.online
       THEN /\ pToast' = Toast("No Internet Connection",
                               Msg("Please check your network connection and try again."),
                               FALSE, NoClosure)
            /\ pShown' = pShown + 1
            /\ UNCHANGED <<pAnalyzing, pInflight, pPosts>>
       ELSE /\ pAnalyzing' = TRUE
            /\ pInflight' = Append(pInflight, closure)
            /\ pPosts' = pPosts + 1
            /\ UNCHANGED <<pToast, pShown>>
    /\ UNCHANGED <<pSelected, pResult, pOnline, pSidebar>>
    /\ UNCHANGED <<validatorVars, areaVars, serverVars, deriveVars, concurrentVars, mapVars>>

\* the Analyze Field button over the map
ClickAnalyze ==
    /\ pSelected.present /\ ~pAnalyzing /\ pOnline
    /\ analyzeField(Closure(pSelected, pOnline))

\* the Start Analysis button of the sidebar
ClickStartAnalysis ==
    /\ ~pResult.present /\ pSelected.present /\ ~pAnalyzing
    /\ analyzeField(Closure(pSelected, pOnline))

\* the Retry button of the toast on screen
ClickRetry ==
    /\ pToast.retry
    /\ analyzeField(pToast.closure)

\* the same without the finally clause: isAnalyzing is reset on success only
SettleWithoutFinally(i, outcome, requests, sent) ==
    /\ IF Succeeded(outcome)
       THEN /\ pResult' = ResultFor(pInflight[i].field.geometry)
            /\ pSidebar' = TRUE
            /\ pToast' = Toast("Analysis Complete", Msg("Field analysis completed successfully!"),
                               FALSE, NoClosure)
            /\ pAnalyzing' = FALSE
       ELSE /\ pToast' = Toast("Analysis Failed", errorMessage(ErrorOf(outcome)),
                               TRUE, pInflight[i])
            /\ UNCHANGED <<pResult, pSidebar, pAnalyzing>>
    /\ pShown' = pShown + 1
    /\ pInflight' = requests
    /\ pPosts' = sent
    /\ UNCHANGED <<pSelected, pOnline, pClicks>>
    /\ UNCHANGED <<validatorVars, areaVars, serverVars, deriveVars, concurrentVars, mapVars>>

\* the rest of analyzeField, from the outcome of request i on; requests and
\* sent are the requests outstanding and the number of POSTs afterwards
Settle(i, outcome, requests, sent) ==
    /\ IF Succeeded(outcome)
       THEN /\ pResult' = ResultFor(pInflight[i].field.geometry)
            /\ pSidebar' = TRUE
            /\ pToast' = Toast("Analysis Complete", Msg("Field analysis completed successfully!"),
                               FALSE, NoClosure)
       ELSE /\ pToast' = Toast("Analysis Failed", errorMessage(ErrorOf(outcome)),
                               TRUE, pInflight[i])
            /\ UNCHANGED <<pResult, pSidebar>>
    /\ pShown' = pShown + 1
    /\ pAnalyzing' = FALSE
    /\ pInflight' = requests
    /\ pPosts' = sent
    /\ UNCHANGED <<pSelected, pOnline, pClicks>>
    /\ UNCHANGED <<validatorVars, areaVars, serverVars, deriveVars, concurrentVars, mapVars>>

\* a mutation of Respond that sends the request again after a failure
RespondResending(i, outcome) ==
    /\ i \in 1..Len(pInflight)
    /\ IF Succeeded(outcome)
       THEN Settle(i, outcome, RemoveAt(pInflight, i), pPosts)
       ELSE Settle(i, outcome, Append(RemoveAt(pInflight, i), pInflight[i]), pPosts + 1)

\* the POST of request i settles with outcome
Respond(i, outcome) ==
    /\ i \in 1..Len(pInflight)
    /\ Settle(i, outcome, RemoveAt(pInflight, i), pPosts)

\* onFieldSelected(field) from the map: a boundary was drawn or edited
SelectField(field) ==
    /\ pSelected' = field
    /\ UNCHANGED <<pResult, pAnalyzing, pOnline, pSidebar, pToast, pShown, pInflight, pClicks, pPosts>>
    /\ UNCHANGED <<validatorVars, areaVars, serverVars, deriveVars, concurrentVars, mapVars>>

\* clearAnalysis, from Clear Selection or from Clear in the results panel
clearAnalysis ==
    /\ \/ (pSelected.present \/ pResult.present) /\ ~pAnalyzing
       \/ pResult.present
    /\ pResult' = NoAnalysis
    /\ pSelected' = NoField
    /\ pSidebar' = FALSE
    /\ mLayers' = {}
    /\ UNCHANGED <<pAnalyzing, pOnline, pToast, pShown, pInflight, pClicks, pPosts, mVariant, mReady>>
    /\ UNCHANGED <<validatorVars, areaVars, serverVars, deriveVars, concurrentVars>>

\* the online and offline events of the window
SetOnline(online) ==
    /\ pOnline /= online
    /\ pOnline' = online
    /\ UNCHANGED <<pSelected, pResult, pAnalyzing, pSidebar, pToast, pShown, pInflight, pClicks, pPosts>>
    /\ UNCHANGED <<validatorVars, areaVars, serverVars, deriveVars, concurrentVars, mapVars>>

\* the sheet is opened or closed
SetSidebarOpen(open) ==
    /\ pSidebar /= open
    /\ pSidebar' = open
    /\ UNCHANGED <<pSelected, pResult, pAnalyzing, pOnline, pToast, pShown, pInflight, pClicks, pPosts>>
    /\ UNCHANGED <<validatorVars, areaVars, serverVars, deriveVars, concurrentVars, mapVars>>

(***************************************************************************)
(* Page runs: the fields the map hands over and the outcomes of a POST     *)
(***************************************************************************)
TriangleRing == Ring(<<Pair(0, 0), Pair(1, 0), Pair(1, 1), Pair(0, 0)>>)

\* two fields in the accepted area range and one of 0.05 ha
PageFields ==
    { Field(Geometry("Polygon", Coordinates(<<SquareRing>>)), Area(500)),
      Field(Geometry("Polygon", Coordinates(<<TriangleRing>>)), Area(1000)),
      Field(Geometry("Polygon", Coordinates(<<TriangleRing>>)), Area(5)) }

ServerMessages == {Msg("Invalid geometry type. Must be Polygon"), Msg("Internal server error")}

Outcomes ==
    {Outcome("timeout", FALSE, FALSE, FALSE, Msg("")),
     Outcome("network", FALSE, FALSE, FALSE, Msg("")),
     Outcome("envelope", TRUE, TRUE, TRUE, Msg("Analysis completed")),
     Outcome("envelope", TRUE, FALSE, TRUE, Msg("Analysis completed")),
     Outcome("status", FALSE, FALSE, FALSE, Msg(""))}
    \cup { Outcome(k, FALSE, FALSE, TRUE, m) : k \in {"envelope", "status"}, m \in ServerMessages }

PageIdle ==
    /\ pSelected = NoField
    /\ pResult = NoAnalysis
    /\ pAnalyzing = FALSE
    /\ pOnline = TRUE
    /\ pSidebar = FALSE
    /\ pToast = NoToast
    /\ pShown = 0
    /\ pInflight = <<>>
    /\ pClicks = 0
    /\ pPosts = 0

(***************************************************************************)
(* The map component.  drawnItems holds the boundaries drawn so far; a     *)
(* boundary is identified with the GeoJSON field that layer.toGeoJSON()    *)
(* and calculatePolygonArea give for it.  The component reports to the     *)
(* page through onFieldSelected, which is the page's setSelectedField.     *)
(***************************************************************************)
\* onFieldSelected(field), leaving drawnItems to the caller
onFieldSelected(field) ==
    /\ pSelected' = field
    /\ UNCHANGED <<pResult, pAnalyzing, pOnline, pSidebar, pToast, pShown, pInflight, pClicks, pPosts>>
    /\ UNCHANGED <<validatorVars, areaVars, serverVars, deriveVars, concurrentVars, mVariant>>

\* the effect that builds the map, drawnItems and the draw control, once the
\* libraries are loaded
initializeMap ==
    /\ ~mReady
    /\ mReady' = TRUE
    /\ UNCHANGED <<mVariant, mLayers, pageVars, validatorVars, areaVars, serverVars,
                   deriveVars, concurrentVars>>

\* L.Draw.Event.CREATED: the layer is added and reported
Created(field) ==
    /\ mReady
    /\ field \notin mLayers
    /\ UNCHANGED mReady
    /\ mLayers' = mLayers \cup {field}
    /\ onFieldSelected(field)

\* the toolbar offers editing and deleting unless edit and remove are false
ToolbarEdits == mVariant /= "drawOnly"

\* L.Draw.Event.EDITED: every edited layer is reported in turn, the one
\* reported last stays selected; edit maps each edited boundary to its new
\* shape
Edited(edit, last) ==
    /\ mReady /\ ToolbarEdits
    /\ UNCHANGED mReady
    /\ last \in DOMAIN edit
    /\ mLayers' = (mLayers \ DOMAIN edit) \cup { edit[f] : f \in DOMAIN edit }
    /\ onFieldSelected(edit[last])

\* the DELETED handler of src/unnamed/part_000: drawnItems.getLayers().length === 0
DeletedSignals(remaining) == remaining = {}

\* L.Draw.Event.DELETED: the toolbar has removed the layers from drawnItems;
\* components/map-component.tsx reports null unconditionally
Deleted(removed) ==
    /\ mReady /\ ToolbarEdits
    /\ UNCHANGED mReady
    /\ removed /= {} /\ removed \subseteq mLayers
    /\ mLayers' = mLayers \ removed
    /\ IF mVariant = "plain" \/ DeletedSignals(mLayers')
       THEN onFieldSelected(NoField)
       ELSE UNCHANGED <<pageVars, validatorVars, areaVars, serverVars, deriveVars,
                        concurrentVars, mVariant>>

\* clearSelection of src/unnamed/part_000, behind the Clear button that is
\* rendered while hasDrawnItems
clearSelection ==
    /\ mVariant /= "plain"
    /\ mReady /\ mLayers /= {}
    /\ mLayers' = {}
    /\ UNCHANGED mReady
    /\ onFieldSelected(NoField)

\* refreshMap of src/unnamed/part_000: the map and drawnItems are dropped
\* and the libraries are loaded again
refreshMap ==
    /\ mVariant /= "plain"
    /\ mReady' = FALSE
    /\ mLayers' = {}
    /\ onFieldSelected(NoField)

\* the edits of the boundaries on the map: some of them get a new shape that
\* no other boundary has
Edits ==
    UNION { { e \in [olds -> PageFields] :
                /\ \A f \in olds : e[f] /= f
                /\ \A f, g \in olds : e[f] = e[g] => f = g
                /\ \A f \in olds : e[f] \notin mLayers \ olds }
            : olds \in SUBSET mLayers \ {{}} }

MapIdle ==
    /\ mVariant = "plain"
    /\ mReady = FALSE
    /\ mLayers = {}

(***************************************************************************)
(* Two handlers of the sdk route running in one server process.  Each      *)
(* invocation of POST has its own locals; the imported ee module is one    *)
(* object of the process, authenticateViaPrivateKey writes the credentials *)
(* into it and the reductions are issued with whatever credentials it      *)
(* holds.  The credentials of the environment are set.                     *)
(***************************************************************************)
Handlers == {1, 2}

NoRequest == [json |-> TRUE, body |-> [kind |-> "null", geometry |-> NoGeometry]]

\* the response of POST for a request, given the answers of the provider to
\* its calls in the order they were made: <<outcome, text>> for the
\* authentication, the initialization and the reductions
HandledAlone(req, provider, answers) ==
    IF ~req.json THEN BadRequest(Msg("Request must be JSON"))
    ELSE IF req.body.kind = "malformed" THEN Catch(Error(Msg("SyntaxError")))
    ELSE IF req.body.kind = "null" \/ ~req.body.geometry.present
    THEN BadRequest(Msg("No geometry provided"))
    ELSE LET v == validateGeometry(req.body.geometry)
             failed == { i \in 1..Len(answers) : answers[i][1] /= "ok" }
         IN  IF v.threw THEN Catch(Error(v.msg))
             ELSE IF ~v.ok THEN BadRequest(v.msg)
             ELSE IF failed /= {}
             THEN LET i == CHOOSE k \in failed : \A j \in failed : k <= j
                  IN  Catch(IF answers[i][1] = "error"
                            THEN ProviderError(answers[i][2]) ELSE StringRejection)
             ELSE IF Len(answers) = 3
             THEN Json(createResponse(TRUE, Msg("Analysis completed"),
                                      Defined(SdkResult(req.body.geometry, provider))), 200)
             ELSE NoResponse

HandlerFinish(h, resp) ==
    /\ hResp' = [hResp EXCEPT ![h] = resp]
    /\ hPc' = [hPc EXCEPT ![h] = "done"]

\* a request arrives: the credentials and the content type are tested, the
\* handler awaits req.json()
HandlerReceive(h, req, provider) ==
    /\ hPc[h] = "idle"
    /\ hReq' = [hReq EXCEPT ![h] = req]
    /\ hProvider' = [hProvider EXCEPT ![h] = provider]
    /\ IF ~req.json
       THEN HandlerFinish(h, BadRequest(Msg("Request must be JSON")))
       ELSE hPc' = [hPc EXCEPT ![h] = "json"] /\ UNCHANGED hResp
    /\ UNCHANGED <<hOutcome, eeSession, hRead, validatorVars, areaVars, serverVars, deriveVars, pageVars, mapVars>>

\* from the parsed body up to the call of ee.data.authenticateViaPrivateKey
HandlerParsed(h) ==
    /\ hPc[h] = "json"
    /\ IF hReq[h].body.kind = "malformed"
       THEN HandlerFinish(h, Catch(Error(Msg("SyntaxError"))))
       ELSE IF hReq[h].body.kind = "null" \/ ~hReq[h].body.geometry.present
       THEN HandlerFinish(h, BadRequest(Msg("No geometry provided")))
       ELSE LET v == validateGeometry(hReq[h].body.geometry) IN
            IF v.threw THEN HandlerFinish(h, Catch(Error(v.msg)))
            ELSE IF ~v.ok THEN HandlerFinish(h, BadRequest(v.msg))
            ELSE hPc' = [hPc EXCEPT ![h] = "authenticate"] /\ UNCHANGED hResp
    /\ UNCHANGED <<hReq, hProvider, hOutcome, eeSession, hRead,
                   validatorVars, areaVars, serverVars, deriveVars, pageVars, mapVars>>

\* authenticateViaPrivateKey comes back: on success the credentials of this
\* call are in the ee module and its callback calls ee.initialize
HandlerAuthenticated(h, outcome, text) ==
    /\ hPc[h] = "authenticate"
    /\ hOutcome' = [hOutcome EXCEPT ![h] = Append(@, <<outcome, text>>)]
    /\ IF outcome = "ok"
       THEN /\ eeSession' = h
            /\ hPc' = [hPc EXCEPT ![h] = "initialize"]
            /\ UNCHANGED hResp
       ELSE /\ HandlerFinish(h, Catch(IF outcome = "error" THEN ProviderError(text)
                                                             ELSE StringRejection))
            /\ UNCHANGED eeSession
    /\ UNCHANGED <<hReq, hProvider, hRead, validatorVars, areaVars, serverVars, deriveVars, pageVars, mapVars>>

\* the credentials the calls of a handler are issued with: those of the module
moduleSession(h) == eeSession

\* ee.initialize comes back: on success the promise resolves, the handler
\* builds its expressions and issues the five getInfo() calls through the ee
\* module
HandlerInitialized(h, outcome, text) ==
    /\ hPc[h] = "initialize"
    /\ hOutcome' = [hOutcome EXCEPT ![h] = Append(@, <<outcome, text>>)]
    /\ IF outcome = "ok"
       THEN /\ hRead' = [hRead EXCEPT ![h] = moduleSession(h)]
            /\ hPc' = [hPc EXCEPT ![h] = "reduce"]
            /\ UNCHANGED hResp
       ELSE /\ HandlerFinish(h, Catch(IF outcome = "error" THEN ProviderError(text)
                                                             ELSE StringRejection))
            /\ UNCHANGED hRead
    /\ UNCHANGED <<hReq, hProvider, eeSession, validatorVars, areaVars, serverVars, deriveVars, pageVars, mapVars>>

\* the Promise.all of the reductions settles: the result is derived from the
\* locals of this invocation
HandlerReduced(h, outcome, text) ==
    /\ hPc[h] = "reduce"
    /\ hOutcome' = [hOutcome EXCEPT ![h] = Append(@, <<outcome, text>>)]
    /\ IF outcome = "ok"
       THEN HandlerFinish(h, Json(createResponse(TRUE, Msg("Analysis completed"),
                                  Defined(SdkResult(hReq[h].body.geometry, hProvider[h]))), 200))
       ELSE HandlerFinish(h, Catch(ProviderError(text)))
    /\ UNCHANGED <<hReq, hProvider, eeSession, hRead, validatorVars, areaVars, serverVars, deriveVars, pageVars, mapVars>>

\* the requests of the concurrent runs: two fields, a geometry that is
\* rejected, a body that is not JSON
ConcurrentRequests ==
    { [json |-> TRUE, body |-> [kind |-> "object", geometry |-> g]] :
        g \in { Geometry("Polygon", Coordinates(<<SquareRing>>)),
                Geometry("Polygon", Coordinates(<<Ring(<<Pair(0, 0), Pair(1, 1), Pair(0, 0)>>)>>)) } }
    \cup { [json |-> FALSE, body |-> [kind |-> "null", geometry |-> NoGeometry]],
           [json |-> TRUE, body |-> [kind |-> "malformed", geometry |-> NoGeometry]] }

ConcurrentProviders ==
    {ProviderExample, Provider(JNull, JNum(15), JNull, EviDict(JNull, JNull), HistExample)}

ConcurrentIdle ==
    /\ hPc = [h \in Handlers |-> "idle"]
    /\ hReq = [h \in Handlers |-> NoRequest]
    /\ hResp = [h \in Handlers |-> NoResponse]
    /\ hProvider = [h \in Handlers |-> NoProvider]
    /\ hOutcome = [h \in Handlers |-> <<>>]
    /\ eeSession = 0
    /\ hRead = [h \in Handlers |-> 0]

(***************************************************************************)
(* Specifications.  Each one runs one part of the program and leaves the   *)
(* variables of the other parts at rest.                                   *)
(***************************************************************************)
AreaIdle ==
    /\ aRing = [isNull |-> TRUE, pts |-> <<>>]
    /\ aUtil = FALSE
    /\ aArea = NoAreas
    /\ aReversed = NoAreas
    /\ aDone = FALSE

ValidatorIdle ==
    /\ vField = NoField
    /\ vServer = NoResult
    /\ vClient = NoResult
    /\ vDone = FALSE

DeriveIdle ==
    /\ dProvider = NoProvider
    /\ dSummary = NoSummary
    /\ dDone = FALSE

InitValidator ==
    /\ vField \in Fields
    /\ vServer = NoResult
    /\ vClient = NoResult
    /\ vDone = FALSE
    /\ AreaIdle
    /\ ServerIdle
    /\ DeriveIdle
    /\ PageIdle
    /\ ConcurrentIdle
    /\ MapIdle

\* the server validates field.geometry, the client validates the field
ApplyValidators ==
    /\ ~vDone
    /\ vServer' = validateGeometry(vField.geometry)
    /\ vClient' = validateField(vField)
    /\ vDone' = TRUE
    /\ UNCHANGED <<vField, areaVars, serverVars, deriveVars, pageVars, concurrentVars, mapVars>>

NextValidator == ApplyValidators

SpecValidator == InitValidator /\ [][NextValidator]_vars
InitArea ==
    /\ aRing \in AreaRings
    /\ aUtil \in BOOLEAN
    /\ aArea = NoAreas
    /\ aReversed = NoAreas
    /\ aDone = FALSE
    /\ ValidatorIdle
    /\ ServerIdle
    /\ DeriveIdle
    /\ PageIdle
    /\ ConcurrentIdle
    /\ MapIdle

ComputeAreas ==
    /\ ~aDone
    /\ aArea' = Areas(aRing, aUtil)
    /\ aReversed' = Areas(ReverseRing(aRing), aUtil)
    /\ aDone' = TRUE
    /\ UNCHANGED <<aRing, aUtil, validatorVars, serverVars, deriveVars, pageVars, concurrentVars, mapVars>>

NextArea == ComputeAreas

SpecArea == InitArea /\ [][NextArea]_vars

InitDerive ==
    /\ dProvider \in Providers
    /\ dSummary = NoSummary
    /\ dDone = FALSE
    /\ ValidatorIdle
    /\ AreaIdle
    /\ ServerIdle
    /\ PageIdle
    /\ ConcurrentIdle
    /\ MapIdle

\* the handler builds result.summary from the reductions
Derive ==
    /\ ~dDone
    /\ dSummary' = Summary(dProvider)
    /\ dDone' = TRUE
    /\ UNCHANGED <<dProvider, validatorVars, areaVars, serverVars, pageVars, concurrentVars, mapVars>>

NextDerive == Derive

SpecDerive == InitDerive /\ [][NextDerive]_vars

Init ==
    /\ sVariant \in {"sdk", "rest"}
    /\ sEnv \in [privateKey : BOOLEAN, clientEmail : BOOLEAN, projectId : BOOLEAN]
    /\ sPc = "idle"
    /\ sReq = [json |-> TRUE, body |-> [kind |-> "null", geometry |-> NoGeometry]]
    /\ sResp = NoResponse
    /\ sCalls = <<>>
    /\ sProvider = NoProvider
    /\ sGot = NoProvider
    /\ sPending = {}
    /\ ValidatorIdle
    /\ AreaIdle
    /\ DeriveIdle
    /\ PageIdle
    /\ ConcurrentIdle
    /\ MapIdle

Next ==
    \/ \E req \in Requests : Receive(req)
    \/ SdkStart
    \/ SdkParsed
    \/ \E outcome \in {"ok", "error", "string"}, text \in ProviderTexts, provider \in ProviderSamples :
          SdkAuthenticated(outcome, text, provider)
    \/ \E name \in Reductions, outcome \in {"ok", "error"}, text \in ProviderTexts :
          SdkReduced(name, outcome, text)
    \/ RestStart
    \/ \E outcome \in {"ok", "empty", "error"}, text \in ProviderTexts : RestToken(outcome, text)
    \/ RestParsed
    \/ \E outcome \in {"ok", "httpError", "error"}, ndvi \in NdviSamples, text \in ProviderTexts :
          RestComputed(outcome, ndvi, text)

Spec == Init /\ [][Next]_vars

InitPage ==
    /\ PageIdle
    /\ ValidatorIdle
    /\ AreaIdle
    /\ ServerIdle
    /\ DeriveIdle
    /\ ConcurrentIdle
    /\ MapIdle

NextPage ==
    \/ \E field \in PageFields \cup {NoField} : SelectField(field)
    \/ ClickAnalyze
    \/ ClickStartAnalysis
    \/ ClickRetry
    \/ \E i \in 1..MaxClicks, outcome \in Outcomes : Respond(i, outcome)
    \/ clearAnalysis
    \/ \E online \in BOOLEAN : SetOnline(online)
    \/ \E open \in BOOLEAN : SetSidebarOpen(open)

SpecPage == InitPage /\ [][NextPage]_vars

\* axios.post is given timeout: 45000, so every request settles: with a
\* response, a rejection, or ECONNABORTED when nothing comes back
SpecPageFair ==
    /\ InitPage
    /\ [][NextPage]_vars
    /\ WF_vars(\E i \in 1..MaxClicks, outcome \in Outcomes : Respond(i, outcome))

InitConcurrent ==
    /\ ConcurrentIdle
    /\ ValidatorIdle
    /\ AreaIdle
    /\ ServerIdle
    /\ DeriveIdle
    /\ PageIdle
    /\ MapIdle

NextConcurrent ==
    \/ \E h \in Handlers, req \in ConcurrentRequests, provider \in ConcurrentProviders :
          HandlerReceive(h, req, provider)
    \/ \E h \in Handlers : HandlerParsed(h)
    \/ \E h \in Handlers, outcome \in {"ok", "error", "string"}, text \in ProviderTexts :
          HandlerAuthenticated(h, outcome, text)
    \/ \E h \in Handlers, outcome \in {"ok", "error"}, text \in ProviderTexts :
          HandlerInitialized(h, outcome, text)
    \/ \E h \in Handlers, outcome \in {"ok", "error"}, text \in ProviderTexts :
          HandlerReduced(h, outcome, text)

SpecConcurrent == InitConcurrent /\ [][NextConcurrent]_vars

InitMap ==
    /\ mVariant \in {"plain", "drawOnly", "editable"}
    /\ mReady = FALSE
    /\ mLayers = {}
    /\ PageIdle
    /\ ValidatorIdle
    /\ AreaIdle
    /\ ServerIdle
    /\ DeriveIdle
    /\ ConcurrentIdle

NextMap ==
    \/ initializeMap
    \/ \E field \in PageFields : Created(field)
    \/ \E edit \in Edits : \E last \in DOMAIN edit : Edited(edit, last)
    \/ \E removed \in SUBSET mLayers : Deleted(removed)
    \/ clearSelection
    \/ refreshMap
    \/ ClickAnalyze
    \/ ClickStartAnalysis
    \/ ClickRetry
    \/ \E i \in 1..MaxClicks, outcome \in Outcomes : Respond(i, outcome)
    \/ clearAnalysis
    \/ \E online \in BOOLEAN : SetOnline(online)
    \/ \E open \in BOOLEAN : SetSidebarOpen(open)

SpecMap == InitMap /\ [][NextMap]_vars

(***************************************************************************)
(* The checks of the validator contract, stated on the input alone         *)
(***************************************************************************)
IsNumericPair(coord) ==
    coord.arr /\ Len(coord.items) = 2 /\ IsNumber(coord.items[1]) /\ IsNumber(coord.items[2])

InBounds(coord) ==
    /\ coord.items[1].n >= -180 /\ coord.items[1].n <= 180
    /\ coord.items[2].n >= -90 /\ coord.items[2].n <= 90

GoodCoord(coord) == IsNumericPair(coord) /\ InBounds(coord)

OuterRing(geometry) == geometry.coordinates.rings[1]

Check2(geometry) == geometry.type = "Polygon"

Check3(geometry) ==
    /\ geometry.coordinates.arr
    /\ Len(geometry.coordinates.rings) >= 1
    /\ OuterRing(geometry).t = "arr"
    /\ Len(OuterRing(geometry).pts) >= 4

Check4(geometry) ==
    \A i \in 1..Len(OuterRing(geometry).pts) : GoodCoord(OuterRing(geometry).pts[i])

Check5(field) == AreaOf(field) >= 10 /\ AreaOf(field) <= 1000000

\* the number of the first check that fails, 0 when none does
FirstFailingServer(geometry) ==
    IF ~geometry.present THEN 1
    ELSE IF ~Check2(geometry) THEN 2
    ELSE IF ~Check3(geometry) THEN 3
    ELSE IF ~Check4(geometry) THEN 4
    ELSE 0

FirstFailingClient(field) ==
    IF ~field.present THEN 1
    ELSE IF FirstFailingServer(field.geometry) /= 0 THEN FirstFailingServer(field.geometry)
    ELSE IF ~Check5(field) THEN 5
    ELSE 0

\* the check a returned reason belongs to: 0 for Ok, -1 when the call raised
ReasonCheck(result) ==
    IF result.threw THEN -1
    ELSE IF result.ok THEN 0
    ELSE IF result.msg.text \in {"Geometry is required", "Invalid field geometry"} THEN 1
    ELSE IF result.msg.text \in {"Geometry must be a Polygon", "Field must be a polygon"} THEN 2
    ELSE IF result.msg.text \in {"Invalid coordinates", "Polygon must have at least 3 points"} THEN 3
    ELSE IF result.msg.text \in {"Invalid coordinate format",
                                 "Invalid coordinates: longitude , latitude "} THEN 4
    ELSE 5

\* C4: each validator returns Ok exactly when every check passes and
\* otherwise the reason of the first failing check, in the order 1..5
C4_FirstFailingCheck ==
    vDone => /\ ReasonCheck(vServer) = FirstFailingServer(vField.geometry)
             /\ ReasonCheck(vClient) = FirstFailingClient(vField)

\* the index of the first coordinate of the ring that is not a good one
FirstBadCoord(pts) ==
    CHOOSE i \in 1..Len(pts) :
        /\ ~GoodCoord(pts[i])
        /\ \A j \in 1..(i - 1) : GoodCoord(pts[j])

\* C5: validateGeometry rejects an outer ring with a coordinate that is not a
\* 2-element numeric pair or is out of bounds, names the longitude and
\* latitude of an out-of-bounds pair, and accepts a ring of good coordinates
C5_ServerCoordinateCheck ==
    (vDone /\ FirstFailingServer(vField.geometry) \in {0, 4}) =>
        LET pts == OuterRing(vField.geometry).pts IN
        IF Check4(vField.geometry) THEN vServer.ok
        ELSE /\ ~vServer.ok
             /\ ~vServer.threw
             /\ IsNumericPair(pts[FirstBadCoord(pts)])
                    => vServer.msg.args = pts[FirstBadCoord(pts)].items

\* a coordinate with longitude 200 or latitude -95
IsListedBadCoord(coord) ==
    IsNumericPair(coord) /\ (coord.items[1].n = 200 \/ coord.items[2].n = -95)

\* C6: validateField rejects a non-Polygon type, an outer ring of length 3
\* and every field whose outer ring has a coordinate with longitude 200 or
\* latitude -95
C6_ClientRejectList ==
    (vDone /\ vField.present /\ vField.geometry.present) =>
        LET g == vField.geometry IN
        /\ ~Check2(g) => ~vClient.ok
        /\ (Check2(g) /\ g.coordinates.arr /\ Len(g.coordinates.rings) >= 1
              /\ OuterRing(g).t = "arr")
           => /\ Len(OuterRing(g).pts) = 3 => ~vClient.ok
              /\ (\E i \in 1..Len(OuterRing(g).pts) : IsListedBadCoord(OuterRing(g).pts[i]))
                    => ~vClient.ok

\* the field reaches the area check of validateField
ReachesAreaCheck(field) ==
    /\ field.present /\ field.geometry.present
    /\ Check2(field.geometry) /\ Check3(field.geometry)

\* C7: validateField accepts properties.area exactly when 0.1 <= area <=
\* 10000; a rejection carries the area to one decimal place; missing
\* properties or a missing area count as area 0 and are rejected
C7_ClientAreaRange ==
    (vDone /\ ReachesAreaCheck(vField)) =>
        LET a == IF vField.properties.present /\ vField.properties.hasArea
                 THEN vField.properties.area ELSE 0
        IN  /\ vClient.ok <=> (a >= 10 /\ a <= 1000000)
            /\ ~vClient.threw
            /\ ~vClient.ok =>
                 /\ ReasonCheck(vClient) = 5
                 /\ Len(vClient.msg.args) = 1
                 /\ Abs(10 * vClient.msg.args[1].n - a) <= 5
            /\ ~(vField.properties.present /\ vField.properties.hasArea) => ~vClient.ok

\* a field on the lower bound 0.1 ha is accepted and one of 15000 ha is
\* rejected as "15000.0"
C7_Witness ==
    /\ vDone /\ ReachesAreaCheck(vField)
    /\ \/ AreaOf(vField) = 10 /\ vClient.ok
       \/ AreaOf(vField) = 1500000 /\ vClient.msg.args = <<JNum(150000)>>
(***************************************************************************)
(* Claims about the request handler                                        *)
(***************************************************************************)
\* C1: every response carries data if and only if success is true
C1_DataIffSuccess ==
    sResp.status /= 0 => (sResp.hasData <=> sResp.success)

\* a success response has been returned with its data
C1_Witness ==
    sPc = "done" /\ sResp.status = 200 /\ sResp.success /\ sResp.hasData

\* the request fails validation: wrong content type, no body, or a geometry
\* that fails one of the checks 1..4
RequestInvalid(req) ==
    \/ ~req.json
    \/ req.body.kind = "null"
    \/ FirstFailingServer(req.body.geometry) /= 0

CredentialsMissing == ~sEnv.privateKey \/ ~sEnv.clientEmail \/ ~sEnv.projectId

UpstreamFailed == \E i \in 1..Len(sCalls) : sCalls[i] = "failed"

\* C2: a response is 200 with success, 400 without success for a validation
\* failure, or 500 without success for a credential or upstream failure; a
\* validation failure is never a 500 and a credential or upstream failure
\* never a 400 (a body that is not JSON text at all is left aside)
C2_StatusTaxonomy ==
    (sPc = "done" /\ sReq.body.kind /= "malformed") =>
        /\ <<sResp.status, sResp.success>> \in {<<200, TRUE>>, <<400, FALSE>>, <<500, FALSE>>}
        /\ (RequestInvalid(sReq) /\ ~CredentialsMissing /\ ~UpstreamFailed) => sResp.status = 400
        /\ (~RequestInvalid(sReq) /\ (CredentialsMissing \/ UpstreamFailed)) => sResp.status = 500
        /\ sResp.status = 200 => (~RequestInvalid(sReq) /\ ~CredentialsMissing /\ ~UpstreamFailed)

\* C3: a request with an invalid geometry gets the validation rejection
\* before the credential check and before any provider call
C3_ValidationFirst ==
    (sPc = "done" /\ sReq.json /\ sReq.body.kind = "object"
       /\ FirstFailingServer(sReq.body.geometry) /= 0) =>
        /\ sResp.status = 400
        /\ \A i \in 1..Len(sCalls) : sCalls[i] = "validate"

(***************************************************************************)
(* Claims about calculatePolygonArea                                       *)
(***************************************************************************)
FewerThanFour(ring) == ring.isNull \/ Len(ring.pts) < 4

\* C8: calculatePolygonArea returns exactly 0 for every ring with fewer than
\* 4 points, a null ring included
C8_ShortRingIsZero ==
    (aDone /\ FewerThanFour(aRing)) =>
        /\ aArea.cdn.hectares = 0
        /\ aArea.simple.hectares = 0
        /\ aArea.leaflet.hectares = 0

\* every coordinate of the ring is in valid range
RingInRange(ring) ==
    \A i \in 1..Len(ring.pts) :
        /\ ring.pts[i][1] >= -180 /\ ring.pts[i][1] <= 180
        /\ ring.pts[i][2] >= -90 /\ ring.pts[i][2] <= 90

RECURSIVE ShoelaceReference(_, _)
ShoelaceReference(pts, i) ==
    IF i > Len(pts) THEN 0
    ELSE LET nxt == IF i = Len(pts) THEN 1 ELSE i + 1
         IN  pts[i][1] * pts[nxt][2] - pts[nxt][1] * pts[i][2] + ShoelaceReference(pts, i + 1)

\* C10: for every ring of at least 4 points, closed or not, the square-degree
\* area is half the absolute shoelace sum over all consecutive pairs with
\* wraparound
C10_ShoelaceWithWraparound ==
    (aDone /\ ~FewerThanFour(aRing)) =>
        LET ref == Abs(ShoelaceReference(aRing.pts, 1)) IN
        /\ aArea.cdn.area2 = ref
        /\ aArea.simple.area2 = ref
        /\ ~aUtil => aArea.leaflet.area2 = ref
(***************************************************************************)
(* Health zones and recommendations                                        *)
(***************************************************************************)
\* the buckets of a class, by the bounds on the bucket mean
BucketsOf(zone, hist) ==
    { i \in 1..Min(Len(hist.bucketMeans), Len(hist.histogram)) :
        CASE zone = "healthy" -> hist.bucketMeans[i] > 30
          [] zone = "moderate" -> hist.bucketMeans[i] > 15 /\ hist.bucketMeans[i] <= 30
          [] OTHER -> hist.bucketMeans[i] <= 15 }

RECURSIVE SumOver(_, _)
SumOver(f, S) ==
    IF S = {} THEN 0 ELSE LET i == CHOOSE i \in S : TRUE IN f[i] + SumOver(f, S \ {i})

\* p is 100 * count / total rounded to the nearest integer, halves upwards
IsRoundedPercent(p, count, total) ==
    /\ 2 * total * p <= 200 * count + total
    /\ 2 * total * p > 200 * count - total

ZoneIsRoundedShare(p, zone, hist) ==
    IsRoundedPercent(p, SumOver(hist.histogram, BucketsOf(zone, hist)),
                        SumOver(hist.histogram, DOMAIN hist.histogram))

C12_ZonesSumToHundred ==
    (dDone /\ dSummary.health_zones.present) =>
        LET z == dSummary.health_zones
        IN  /\ z.healthy >= 0 /\ z.moderate >= 0 /\ z.stressed >= 0
            /\ z.healthy + z.moderate + z.stressed >= 99
            /\ z.healthy + z.moderate + z.stressed <= 101

\* the total count of the histogram the provider returned
TotalCount(hist) ==
    IF hist.present /\ hist.histArr THEN SumOver(hist.histogram, DOMAIN hist.histogram) ELSE 0

\* C13: health_zones of a response is null exactly when the histogram is
\* absent or has total count 0, whatever the mean NDVI is
C13_ZonesNullIffNoSamples ==
    dDone => (~dSummary.health_zones.present <=> TotalCount(dProvider.hist) = 0)

\* C14: a histogram whose counts sum to 0 gives health_zones null and the
\* "no data" message as the only recommendation, whatever the four indices are
C14_ZeroSamplesGiveNoData ==
    (dDone /\ dProvider.hist.present /\ TotalCount(dProvider.hist) = 0) =>
        /\ ~dSummary.health_zones.present
        /\ dSummary.recommendations = <<RecNoData>>

IndexAdviceApplies ==
    /\ ~(dSummary.health_zones.present /\ dSummary.health_zones.healthy > 90)
    /\ dSummary.avg_ndvi.t = "num"

Below(v, k) == v.t = "num" /\ v.n < k
Above(v, k) == v.t = "num" /\ v.n > k

\* the recommendations the index rules give for the reported index values
ExpectedAdvice ==
    <<(CASE Below(dSummary.avg_ndvi, 30) -> RecNdviLow
         [] Above(dSummary.avg_ndvi, 60) -> RecNdviHigh
         [] OTHER -> RecNdviMid)>>
    \o (CASE Below(dSummary.avg_ndwi, 20) -> <<RecNdwiLow>>
          [] Above(dSummary.avg_ndwi, 50) -> <<RecNdwiHigh>>
          [] OTHER -> <<>>)
    \o (IF Below(dSummary.avg_ndre, 20) THEN <<RecNdre>> ELSE <<>>)
    \o (IF Below(dSummary.avg_evi, 20) THEN <<RecEvi>> ELSE <<>>)

\* C16: outside the healthy > 90 and "no data" branches the recommendations
\* are one NDVI-tier message (0.3 and 0.6 themselves give the monitor tier),
\* then the NDWI message iff avg_ndwi < 0.2 or > 0.5, then the NDRE message
\* iff avg_ndre < 0.2, then the EVI message iff avg_evi < 0.2; ndvi 0.72,
\* ndwi 0.15, ndre 0.45, evi 0.68 with zones 65/25/10 give the NDVI healthy
\* message and no NDRE message
C16_IndexAdviceInOrder ==
    (dDone /\ IndexAdviceApplies) =>
        /\ dSummary.recommendations = ExpectedAdvice
        /\ (dProvider = ProviderExample =>
              /\ dSummary.health_zones =
                   [present |-> TRUE, healthy |-> 65, moderate |-> 25, stressed |-> 10]
              /\ dSummary.recommendations = <<RecNdviHigh, RecNdwiLow>>)

C16_Witness ==
    /\ dDone /\ IndexAdviceApplies
    /\ dProvider = ProviderExample
    /\ dSummary.recommendations = <<RecNdviHigh, RecNdwiLow>>

(***************************************************************************)
(* Claims about the analysis client of the page                            *)
(***************************************************************************)
\* the toast on screen after the step
NewToast == pToast'

\* C17: a timeout is reported with the timeout message, a failure response
\* that carries a message with that message, and a request without response
\* with the transport message; the three messages differ from one another
C17_ThreeErrorKinds ==
    [][\A i \in 1..MaxClicks, outcome \in Outcomes :
         Respond(i, outcome) =>
            /\ outcome.kind = "timeout" =>
                 NewToast.title = "Analysis Failed" /\ NewToast.description = TimeoutMessage
            /\ (outcome.kind = "status" /\ outcome.hasMessage) =>
                 /\ NewToast.title = "Analysis Failed"
                 /\ NewToast.description = outcome.message
                 /\ NewToast.description \notin {TimeoutMessage, TransportMessage}
            /\ outcome.kind = "network" =>
                 NewToast.title = "Analysis Failed" /\ NewToast.description = TransportMessage
            /\ TimeoutMessage /= TransportMessage]_vars

C17_Witness ==
    /\ pShown = 2
    /\ pToast.title = "Analysis Failed"
    /\ pToast.description = TimeoutMessage
    /\ pToast.closure.field = pSelected
    /\ pInflight = <<>>

\* C18: a delivered envelope with success false is reported as a failure
\* with the message of the envelope; with success true its data becomes
\* the analysis result
C18_EnvelopeRejection ==
    [][\A i \in 1..MaxClicks, outcome \in Outcomes :
         (Respond(i, outcome) /\ outcome.kind = "envelope") =>
            /\ (~outcome.success /\ outcome.hasMessage) =>
                 NewToast.title = "Analysis Failed" /\ NewToast.description = outcome.message
            /\ (outcome.success /\ outcome.hasData) =>
                 pResult' = ResultFor(pInflight[i].field.geometry)]_vars

\* C19: a step sends at most one POST, and only a step in which the user
\* invokes analyzeField (Analyze, Start Analysis or Retry) sends one
C19_NoInternalRetry ==
    [][pPosts' /= pPosts => (pPosts' = pPosts + 1 /\ pClicks' = pClicks + 1)]_vars

C19_Witness ==
    /\ pPosts = 1 /\ pClicks = 1
    /\ pInflight = <<>>
    /\ pShown = 1 /\ pToast.title = "Analysis Failed"

\* C20: every attempt that has ended has shown a toast, and the toast of
\* an attempt that ended without a result offers Retry
C20_EveryFailureOffersRetry ==
    /\ pShown + Len(pInflight) = pClicks
    /\ pShown > 0 => (pToast.title /= "Analysis Complete" => pToast.retry)

\* C21: at most one analysis request is outstanding at any time, and no
\* step sends a request while isAnalyzing is true
C21_SingleRequestOutstanding ==
    [][/\ Len(pInflight') <= 1
       /\ pAnalyzing => pPosts' = pPosts]_vars

(***************************************************************************)
(* Claims about the failures of the handler                                *)
(***************************************************************************)
\* C22: the message of a 500 response contains no text supplied by the
\* provider, so it is the same whatever the provider's error content is
C22_SanitizedFailureMessage ==
    (sPc = "done" /\ sResp.status = 500) =>
        \A i \in 1..Len(sResp.message.args) : sResp.message.args[i] \notin ProviderTexts

\* a JSON request whose geometry passes every check of the validator
ValidRequest ==
    /\ sReq.json /\ sReq.body.kind = "object"
    /\ FirstFailingServer(sReq.body.geometry) = 0

IsProviderCall(call) == call \in {"authenticate", "reduce", "token", "compute"}

\* C23: with a credential unset, a request with a valid geometry ends with
\* a 500 failure envelope without data, and no provider call was made
C23_MissingCredentials ==
    (sPc = "done" /\ CredentialsMissing /\ ValidRequest) =>
        /\ sResp.status = 500 /\ ~sResp.success /\ ~sResp.hasData
        /\ \A i \in 1..Len(sCalls) : ~IsProviderCall(sCalls[i])

\* C27: the response of the sdk route is derived only when all five
\* reductions have come back, in whatever order, and it is derived from all
\* of them; when one of them fails the request ends with a 500 failure
\* envelope without data
C27_JoinOnAllReductions ==
    /\ (sVariant = "sdk" /\ sPc = "reduce") => sResp = NoResponse
    /\ (sVariant = "sdk" /\ sPc = "done" /\ sResp.status = 200) =>
          /\ sPending = {}
          /\ sGot = sProvider
          /\ sResp.data.summary = Summary(sProvider)
    /\ (sVariant = "sdk" /\ sPc = "done" /\ UpstreamFailed) =>
          /\ sResp.status = 500 /\ ~sResp.success /\ ~sResp.hasData
          /\ sResp.data.summary = NoSummary

C27_Witness ==
    /\ sVariant = "sdk" /\ sPc = "done"
    /\ sResp.status = 200
    /\ sProvider = ProviderExample
    /\ sResp.data.summary.recommendations = <<RecNdviHigh, RecNdwiLow>>

\* C24: concurrent POST requests do not interfere: under every interleaving
\* of two handlers each response equals the response the same request gets
\* when handled alone against the same provider data, and no mutable state
\* written by one handler is read by the other.
C24_HandlersDoNotInterfere ==
    \A h \in Handlers :
        /\ hPc[h] = "done" => hResp[h] = HandledAlone(hReq[h], hProvider[h], hOutcome[h])
        /\ hRead[h] \in {0, h}

\* C25: the map signals onFieldSelected(null) whenever a drawn boundary is
\* deleted or the drawing is cleared, so after any sequence of create, edit,
\* delete and clear events selectedField never refers to a polygon that is no
\* longer on the map.
C25_SelectedFieldIsOnTheMap ==
    [][/\ Cardinality(mLayers') < Cardinality(mLayers) => ~pSelected'.present
       /\ pSelected'.present => pSelected' \in mLayers']_vars

\* C26: an analysis POST is sent only when, at the invocation of
\* analyzeField, a field is selected, validateField returned null for it and
\* isOnline is true; otherwise no request is sent and isAnalyzing is not set
\* to true.
Analysable ==
    /\ pSelected.present
    /\ ~validateField(pSelected).threw /\ validateField(pSelected).ok
    /\ pOnline

C26_PostOnlyForValidFieldOnline ==
    [][(pPosts' /= pPosts \/ (~pAnalyzing /\ pAnalyzing')) => Analysable]_vars

\* C28: every request whose geometry fails structural validation receives a
\* 400 with a descriptive message: validateGeometry never throws, whatever
\* JSON value geometry is, so malformed geometry is never turned into a 500.
Validated == \E i \in 1..Len(sCalls) : sCalls[i] = "validate"

C28_MalformedGeometryIs400 ==
    (sPc = "done" /\ Validated) =>
        LET v == validateGeometry(sReq.body.geometry) IN
        /\ ~v.threw
        /\ ~v.ok => sResp.status = 400 /\ ~sResp.success /\ sResp.message = v.msg

\* C29: after any sequence of draw, edit, delete, map Clear, map Refresh,
\* Clear Selection, analyze and response events: whenever analysisResult is
\* non-null, selectedField is non-null and analysisResult is the result of
\* analysing the geometry of the currently selected field.
C29_ResultBelongsToSelectedField ==
    pResult.present =>
        /\ pSelected.present
        /\ pResult = ResultFor(pSelected.geometry)

\* C30: every analysis that sets isAnalyzing to true eventually sets it back
\* to false, whether the request succeeds, is rejected, times out or gets no
\* response, and isAnalyzing is true only while a request is outstanding.
C30_AnalyzingIsReset ==
    /\ pAnalyzing ~> ~pAnalyzing
    /\ [](pAnalyzing => Len(pInflight) >= 1)

C30_Witness ==
    /\ ~pAnalyzing /\ pPosts = 1 /\ pInflight = <<>>
    /\ pToast.title = "Analysis Failed" /\ pToast.description = TimeoutMessage

=============================================================================
